---- MODULE Spec2Model ----
(***************************************************************************)
(* A model of the redhorizon-bot pipeline: src/feeds.py (fetch, score,     *)
(* dedupe, classify) and src/tasks.py (breaking news, daily digest, daily  *)
(* image with the persisted seen-store).                                   *)
(*                                                                         *)
(* Text is modelled at word level: a title or a summary is a sequence of   *)
(* words, a URL is a record of its host and of its path segments.  Time is *)
(* in minutes relative to the `now` the task takes at its start (now = 0,  *)
(* a past time is negative).  Scores are in tenths (1.6 is 16).            *)
(***************************************************************************)
EXTENDS Integers, Sequences, FiniteSets, TLC

VARIABLES
    pc,          \* where the program is: "idle", or the position inside a task
    task,        \* the task that is running or has just returned
    runs,        \* task invocations started so far
    feed,        \* the raw entries the feed source returns, in processing order
    delay,       \* minutes between the task's `now` and fetch_rss_news's `now`
    nitter,      \* the posts fetch_nitter_posts returns (their texts)
    images,      \* the raw entries the image feeds return
    faults,      \* the feeds whose parse raises, and the entries that raise when processed
    pool,        \* the list fetch_rss_news returned (cut to the task's limit)
    redone,      \* the pool after the dedupe step has been applied to it again
    seenFile,    \* the keys persisted in data/seen_links.json (the seen-store)
    cacheFile,   \* data/image_cache.json: the cached urls, oldest first, and _last_host
    seen,        \* the running task's copy of the seen-store
    scored,      \* run_breaking_news: the scored candidates, ranked
    momentum,    \* run_breaking_news: the Nitter momentum
    idx,         \* run_breaking_news: the candidate its loop is at
    posted,      \* run_breaking_news: items published in this invocation
    final,       \* run_daily_digest: the list selected
    first24,     \* run_daily_digest: the list its 24-hour pass selected
    passes72,    \* run_daily_digest: how often its 72-hour pass has run
    picked,      \* run_daily_image: the image picked (a list of at most one)
    result,      \* what the last task returned
    seenBefore,  \* history: the seen-store when the invocation started
    okKeys,      \* history: keys whose publish succeeded in the invocation
    failedKeys,  \* history: keys whose publish failed in the invocation
    resent,      \* history: tasks that handed the publisher a key already seen
    postedTimes, \* history: per link, its successful breaking posts (capped at 2)
    sends,       \* history: the sends made for the item published last, in order
    pub,         \* the publisher at work on one item: its calls and their HTTP posts
    calc,        \* the scorer at work: the item scored and the item it was made from
    culture,     \* the culture state file, the lengths of the three lists, the postings made
    launch,      \* the launches file, the launch state file, the loop over the launches
    overlap      \* two invocations at the same time and the seen-store file they share

inputV == <<feed, delay, nitter, images, faults>>
fetchV == <<pool, redone>>
storeV == <<seenFile, cacheFile>>
breakV == <<scored, momentum, idx, posted>>
digestV == <<final, first24, passes72>>
histV == <<seenBefore, okKeys, failedKeys, resent, postedTimes, sends>>

taskV == <<pc, task, runs, inputV, fetchV, storeV, seen, breakV, digestV, picked, result, histV>>
extraV == <<pub, calc, culture, launch, overlap>>

vars == <<taskV, extraV>>

\* No item is with the publisher.
NoPub ==
    [phase |-> "idle", hasImage |-> FALSE, configured |-> TRUE, retry |-> TRUE,
     resp |-> << >>, calls |-> 0, total |-> 0, ok |-> FALSE, items |-> 0]

\* No item has been scored.
NoCalc ==
    [title |-> << >>, summary |-> << >>, host |-> "", was |-> << >>,
     field |-> "", word |-> ""]

Kinds == {"book", "game", "movie"}

\* tasks.py _culture_state: the state of a missing state file, with empty lists.
NoCulture ==
    [state |-> [cycle |-> "book", index |-> [kind \in Kinds |-> 0]],
     lens |-> [kind \in Kinds |-> 0], log |-> << >>, sent |-> FALSE,
     tick |-> 0]

LaunchIds == {"a", "b", "c"}
Stages == {"t24", "t1", "t10"}

\* An empty launches file and an empty launch state file; no invocation yet.
NoLaunch ==
    [launches |-> << >>, state |-> [id \in LaunchIds |-> {}], now |-> 0, pos |-> 0,
     posted_any |-> FALSE, result |-> "none", runs |-> 0,
     posts |-> [p \in LaunchIds \X Stages |-> 0], failed |-> {}, late |-> {}]

\* No invocation has started, and the seen-store file is empty.
NoOverlap ==
    [file |-> {},
     inv |-> [i \in 1..2 |-> [pc |-> "idle", kind |-> "", seen |-> {}, marked |-> {}]]]

\* The parts of the program that a specification leaves aside are at rest.
PubAtRest == pub = NoPub
CalcAtRest == calc = NoCalc
CultureAtRest == culture = NoCulture
LaunchAtRest == launch = NoLaunch
ExtraAtRest ==
    PubAtRest /\ CalcAtRest /\ CultureAtRest /\ LaunchAtRest /\ overlap = NoOverlap

\* What the steps of one part leave alone.
exceptPub == <<taskV, calc, culture, launch, overlap>>
exceptCalc == <<taskV, pub, culture, launch, overlap>>
exceptCulture == <<taskV, pub, calc, launch, overlap>>
exceptLaunch == <<taskV, pub, calc, culture, overlap>>
exceptOverlap == <<taskV, pub, calc, culture, launch>>

(***************************************************************************)
(* Bounds of the model.                                                    *)
(***************************************************************************)
MaxFeed == 2         \* entries of a feed source in the dedupe specification
MaxDigestFeed == 6   \* entries of a feed source in the digest specification
MaxRunFeed == 3      \* entries of a feed source in the task specification
MaxRuns == 2         \* task invocations in the task specification
MaxFaultFeed == 4    \* entries of a feed source in the fault specification
MaxLaunchRuns == 3    \* invocations in the launch specification
MaxCultureRuns == 5   \* invocations in the culture specification
MaxCultureList == 2   \* items of a culture list
MaxScoreWords == 2    \* words of a title and of a summary in the scoring specification
MaxSendItems == 4    \* items handed to the publisher in the publisher specification

(***************************************************************************)
(* Words, lower-casing and the regular expressions of feeds.py/tasks.py.   *)
(***************************************************************************)
\* str.lower() on the words of the model.
Lower(w) ==
    CASE w = "NASA" -> "nasa"
      [] w = "Moon" -> "moon"
      [] w = "Base" -> "base"
      [] w = "Starship" -> "starship"
      [] w = "Moon-Base" -> "moon-base"
      [] OTHER -> w

\* re.sub(r"[^a-z0-9 ]+", " ", w.lower()) followed by the whitespace collapse:
\* the alphanumeric words a word of the title falls apart into.
AlnumWords(w) ==
    CASE Lower(w) = "!" -> << >>
      [] Lower(w) = "moon-base" -> <<"moon", "base">>
      [] OTHER -> <<Lower(w)>>

RECURSIVE FlatWords(_)
FlatWords(t) ==
    IF t = << >> THEN << >> ELSE AlnumWords(Head(t)) \o FlatWords(Tail(t))

Boilerplate ==
    {"spacex", "nasa", "esa", "news", "update", "launch", "rocket", "starship",
     "falcon", "mars"}

\* feeds.py _title_key: lower-case, punctuation to spaces, boilerplate words
\* removed, whitespace collapsed.  The result stands for the words joined by
\* single spaces.
_title_key(t) == SelectSeq(FlatWords(t), LAMBDA w : w \notin Boilerplate)

\* tasks.py _norm_title: the same without the boilerplate removal.
_norm_title(t) == FlatWords(t)

\* feeds.py _host: urlparse(url).netloc.lower()
_host(url) == Lower(url.host)

\* feeds.py _slug: the last non-empty segment of the lower-cased path.
_slug(url) ==
    LET segs == SelectSeq(url.path, LAMBDA s : s # "")
    IN  IF segs = << >> THEN "" ELSE Lower(segs[Len(segs)])

(***************************************************************************)
(* Scoring.                                                                *)
(***************************************************************************)
KEYWORDS ==
    {"spacex", "starship", "starbase", "boca chica", "falcon 9", "falcon9",
     "falcon-9", "falcon heavy", "super heavy", "booster", "mechazilla",
     "chopsticks", "olm", "olp", "raptor", "merlin", "dragon", "crew dragon",
     "cargo dragon", "launch", "liftoff", "static fire", "hotfire", "wdr",
     "wet dress", "stack", "destack", "rollout", "rollback", "countdown",
     "premiere", "live", "pad", "orbital", "mars", "terraform", "habitat",
     "isru", "red planet", "jezero", "gale", "perseverance", "curiosity"}

NEGATIVE_HINTS ==
    {"opinion", "editorial", "sponsored", "newsletter", "podcast", "weekly",
     "roundup", "recap", "jobs", "hiring", "appointment", "promoted",
     "funding round", "earnings", "stock"}

\* `k in text` for a lower-cased text: none of the model's words contains a
\* keyword as a proper substring, and no keyword of several words is spelled
\* by two adjacent words of the model, so a keyword is in the text exactly
\* when it is one of its words.
WordsOf(text) == {Lower(text[i]) : i \in 1..Len(text)}
Contains(text, k) == k \in WordsOf(text)

\* A variant with the weights of title and summary exchanged.
relevance_score_Swapped(title, summary) ==
    9 * Cardinality({k \in KEYWORDS : Contains(title, k)})
    + 16 * Cardinality({k \in KEYWORDS : Contains(summary, k)})
    - 12 * Cardinality({n \in NEGATIVE_HINTS :
                           Contains(title, n) \/ Contains(summary, n)})

\* feeds.py relevance_score, in tenths.
relevance_score(title, summary) ==
    16 * Cardinality({k \in KEYWORDS : Contains(title, k)})
    + 9 * Cardinality({k \in KEYWORDS : Contains(summary, k)})
    - 12 * Cardinality({n \in NEGATIVE_HINTS :
                           Contains(title, n) \/ Contains(summary, n)})

\* feeds.py calls score_article(title, summary), which no file under src/
\* defines: the scorer of spec section 4.2, which relevance_score implements.
score_article(title, summary) == relevance_score(title, summary)

\* feeds.py SOURCE_WEIGHTS.get(host, 2), in tenths.
SOURCE_WEIGHTS(host) ==
    CASE host \in {"nasa.gov", "science.nasa.gov", "mars.nasa.gov", "spacex.com",
                   "esa.int", "jaxa.jp", "spacenews.com"} -> 50
      [] host \in {"blueorigin.com", "space.com", "spaceflightnow.com",
                   "nasaspaceflight.com", "everydayastronaut.com",
                   "universetoday.com"} -> 40
      [] host = "phys.org" -> 30
      [] host \in {"reddit.com", "old.reddit.com", "www.reddit.com"} -> 10
      [] OTHER -> 20

(***************************************************************************)
(* The feed source.                                                        *)
(***************************************************************************)
\* Three of the configured feeds, in the order of RSS_FEEDS.
RSS_FEEDS ==
    << [host |-> "www.nasa.gov", path |-> <<"rss", "dyn", "breaking_news.rss">>],
       [host |-> "spacenews.com", path |-> <<"feed", "">>],
       [host |-> "www.reddit.com", path |-> <<"r", "spacex.rss">>] >>

\* feed.entries[:50]
EntriesPerFeed == 50
HoursFetch == 48
BreakingMinutes == 15
SuperBreakingMinutes == 5

\* A variant that records the host of the link itself, not the host with the
\* feed's host as its fallback.
Article_LinkHost(title, link, summary, tdt, source_name, source_host, img, s, now) ==
    [title |-> title, link |-> link, summary |-> summary, published |-> tdt,
     source |-> source_name, source_host |-> _host(link), image |-> img,
     score |-> s,
     is_breaking |-> (now - tdt) <= BreakingMinutes,
     is_super_breaking |-> (now - tdt) <= SuperBreakingMinutes]

\* A variant whose breaking flag allows one minute more.
Article_LateFlag(title, link, summary, tdt, source_name, source_host, img, s, now) ==
    [title |-> title, link |-> link, summary |-> summary, published |-> tdt,
     source |-> source_name, source_host |-> source_host, image |-> img,
     score |-> s,
     is_breaking |-> (now - tdt) <= BreakingMinutes + 1,
     is_super_breaking |-> (now - tdt) <= SuperBreakingMinutes]

\* The article fetch_rss_news stores for an entry.
Article(title, link, summary, tdt, source_name, source_host, img, s, now) ==
    [title |-> title, link |-> link, summary |-> summary, published |-> tdt,
     source |-> source_name, source_host |-> source_host, image |-> img,
     score |-> s,
     is_breaking |-> (now - tdt) <= BreakingMinutes,
     is_super_breaking |-> (now - tdt) <= SuperBreakingMinutes]

\* The duplicate key fetch_rss_news builds: host + title key + slug.
DupKey(source_host, title, link) == <<source_host, _title_key(title), _slug(link)>>

\* A variant that takes every entry as dated.
Undated_Never(e) == FALSE

\* published = published_parsed or updated_parsed; if not published: continue
\* (an entry without a parsable time has dated = FALSE, and its `published`
\* field is then not a time the feed gave).
Undated(e) == ~e.dated

\* What can go wrong inside the try block of one feed: fl.feeds are the feeds
\* (indices in RSS_FEEDS) whose feedparser.parse raises, fl.entries the
\* positions of the entries whose processing raises.
NoFaults == [feeds |-> {}, entries |-> {}]

\* A variant in which an exception ends the loop over the feeds.
Raised_AbortsRun(left, f) == 1..Len(RSS_FEEDS)

\* except Exception as ex: print(...): the try block of feed f has been left,
\* and the loop goes on with the next feed.  `left` are the feeds whose try
\* block an exception has ended.
Raised(left, f) == left \cup {f}

\* The loop of fetch_rss_news over the entries of the feeds, in order; an
\* entry e carries the index e.feed of its feed in RSS_FEEDS.
RECURSIVE FetchLoop(_, _, _, _, _, _, _)
FetchLoop(entries, i, now, articles, seen_keys, fl, left) ==
    IF i > Len(entries) THEN articles
    ELSE
      LET e == entries[i]
          nth == Cardinality({j \in 1..i : entries[j].feed = e.feed})
          feed_url == RSS_FEEDS[e.feed]
      IN  IF e.feed \in left
          THEN FetchLoop(entries, i + 1, now, articles, seen_keys, fl, left)
          ELSE IF e.feed \in fl.feeds
          THEN FetchLoop(entries, i + 1, now, articles, seen_keys, fl,
                         Raised(left, e.feed))
          ELSE IF nth > EntriesPerFeed \/ Undated(e)
          THEN FetchLoop(entries, i + 1, now, articles, seen_keys, fl, left)
          ELSE IF i \in fl.entries
          THEN FetchLoop(entries, i + 1, now, articles, seen_keys, fl,
                         Raised(left, e.feed))
          ELSE IF (now - e.published) > HoursFetch * 60
          THEN FetchLoop(entries, i + 1, now, articles, seen_keys, fl, left)
          ELSE
            LET source_host == IF _host(e.link) # "" THEN _host(e.link)
                               ELSE _host(feed_url)
                s == score_article(e.title, e.summary) + SOURCE_WEIGHTS(source_host)
                dkey == DupKey(source_host, e.title, e.link)
            IN  IF dkey \in seen_keys
                THEN FetchLoop(entries, i + 1, now, articles, seen_keys, fl, left)
                ELSE FetchLoop(entries, i + 1, now,
                               Append(articles,
                                      Article(e.title, e.link, e.summary, e.published,
                                              _host(feed_url), source_host, e.image, s, now)),
                               seen_keys \cup {dkey}, fl, left)

\* The order of two sort keys (pairs, compared as Python compares tuples):
\* k is greater than l.
KeyBefore(k, l) == k[1] > l[1] \/ (k[1] = l[1] /\ k[2] > l[2])

\* sorted(..., reverse=True) and list.sort(reverse=True): a stable sort into
\* descending order of the keys, keys[i] being the key of items[i].
\* An item's place is one more than the number of items that go before it:
\* those of a greater key, and those of an equal key that came earlier.
SortDesc(items, keys) ==
    LET n == Len(items)
        place(i) ==
            1 + Cardinality({j \in 1..n :
                   \/ KeyBefore(keys[j], keys[i])
                   \/ (j < i /\ ~KeyBefore(keys[i], keys[j]))})
        places == [i \in 1..n |-> place(i)]
    IN  [p \in 1..n |-> items[CHOOSE i \in 1..n : places[i] = p]]

\* key=lambda x: (x["score"], x["published"])
SortRanked(items) ==
    SortDesc(items, [i \in 1..Len(items) |-> <<items[i].score, items[i].published>>])

\* feeds.py fetch_rss_news, called `d` minutes after the task took its `now`.
fetch_rss_news(entries, d, fl) ==
    SortRanked(FetchLoop(entries, 1, d, << >>, {}, fl, {}))

\* The dedupe step applied to a pool of articles: the first article of each
\* duplicate key stays.
RECURSIVE DedupePool(_, _)
DedupePool(items, seen_keys) ==
    IF items = << >> THEN << >>
    ELSE
      LET a == Head(items)
          dkey == DupKey(a.source_host, a.title, a.link)
      IN  IF dkey \in seen_keys THEN DedupePool(Tail(items), seen_keys)
          ELSE <<a>> \o DedupePool(Tail(items), seen_keys \cup {dkey})

Range(s) == { s[i] : i \in 1..Len(s) }
Take(s, n) == SubSeq(s, 1, IF Len(s) < n THEN Len(s) ELSE n)

\* feeds.py fetch_images: dated entries of the last 96 hours that carry an
\* image url, newest first.
HoursImages == 96
NoUrl == [host |-> "", path |-> << >>]

fetch_images(entries) ==
    LET imgs == SelectSeq(entries, LAMBDA e : /\ e.dated
                                              /\ (0 - e.published) <= HoursImages * 60
                                              /\ e.url # NoUrl)
    IN  SortDesc(imgs, [i \in 1..Len(imgs) |-> <<imgs[i].published, 0>>])

(***************************************************************************)
(* tasks.py: the publisher.                                                *)
(***************************************************************************)
NoImage == ""

\* ok = False; if image: ok = send_telegram_image(...);
\* if not ok: ok = send_telegram_message(...)
\* imgOk and txtOk are what the two senders return when called.
ImageThenText(image, imgOk, txtOk) ==
    IF image # NoImage /\ imgOk THEN TRUE ELSE txtOk

\* One call of send_telegram_image ("image") or send_telegram_message
\* ("text"): what it carried and what it returned; withImage tells whether
\* the item published has an image.
Send(kind, content, ok, withImage) ==
    [kind |-> kind, content |-> content, ok |-> ok, withImage |-> withImage]

\* The sends of run_breaking_news for one item: the image with the body as
\* its caption if there is an image, then the body as text if not ok.
BreakingSends(image, imgOk, txtOk) ==
    IF image = NoImage THEN <<Send("text", "body", txtOk, FALSE)>>
    ELSE IF imgOk THEN <<Send("image", "body", TRUE, TRUE)>>
    ELSE <<Send("image", "body", FALSE, TRUE), Send("text", "body", txtOk, TRUE)>>

\* The sends of run_daily_digest: with a hero image, the image with the head
\* line as its caption and then the blocks after the head as text; without,
\* the full text.
DigestSends(image, imgOk, txtOk) ==
    IF image = NoImage THEN <<Send("text", "full", txtOk, FALSE)>>
    ELSE <<Send("image", "head", imgOk, TRUE), Send("text", "rest", txtOk, TRUE)>>

(***************************************************************************)
(* tasks.py: breaking news.                                                *)
(***************************************************************************)
BreakingPoolLimit == 120
ClusterMinutes == 60
MomentumHits == 2
MomentumBonus == 2
ScoreGate == 80
ConsensusGate == 2
BreakingPosts == 2

\* AUTHORITIES.get(host, 0)
AUTHORITIES(host) ==
    CASE host \in {"nasa.gov", "esa.int", "blueorigin.com", "spacex.com"} -> 2
      [] host \in {"spacenews.com", "spaceflightnow.com", "nasaspaceflight.com",
                   "space.com", "everydayastronaut.com", "universetoday.com",
                   "planetary.org"} -> 1
      [] OTHER -> 0

TREND_KEYWORDS ==
    {"starship", "falcon", "static fire", "scrub", "net", "launch", "rollout",
     "raptor", "booster", "stack", "hotfire", "liftoff", "payload", "stage 0",
     "starbase"}

\* fetch_nitter_posts is imported from feeds.py, which does not define it:
\* the posts of the last 30 minutes are an input, each a text.
\* momentum = 2 if momentum_hits >= 2 else 0
Momentum(posts) ==
    IF Cardinality({i \in 1..Len(posts) :
                       \E k \in TREND_KEYWORDS : Contains(posts[i], k)}) >= MomentumHits
    THEN MomentumBonus ELSE 0

\* clusters: normalized title -> hosts, over the items of the last 60 minutes
Cluster(items, key) ==
    { items[i].source_host : i \in { j \in 1..Len(items) :
          /\ ~((0 - items[j].published) > ClusterMinutes)
          /\ _norm_title(items[j].title) = key } }

\* the tuple (score, consensus, authority, a), the score in tenths
ScoredItem(items, a, mom) ==
    LET consensus == Cardinality({h \in Cluster(items, _norm_title(a.title)) : h # ""})
        authority == AUTHORITIES(a.source_host)
    IN  [score |-> a.score + 10 * ((consensus * 2) + authority + mom),
         consensus |-> consensus, authority |-> authority, a |-> a]

\* scored.sort(key=lambda t: (t[0], t[3]["published"]), reverse=True)
Scored(items, mom) ==
    LET scored_list == [i \in 1..Len(items) |-> ScoredItem(items, items[i], mom)]
    IN  SortDesc(scored_list,
                 [i \in 1..Len(items) |->
                     <<scored_list[i].score, scored_list[i].a.published>>])

\* A variant that stops one post later.
PostLimitReached_Three(n) == n >= BreakingPosts + 1

\* if posted >= 2: break
PostLimitReached(n) == n >= BreakingPosts

\* A variant that never finds a link in the store.
AlreadySeen_Never(key, store) == FALSE

\* if a["link"] in seen: continue
AlreadySeen(key, store) == key \in store

\* A variant with the score gate alone.
PassesGates_ScoreOnly(t, mom) == ~(t.score < ScoreGate)

\* the threshold gates
PassesGates(t, mom) ==
    /\ ~(t.score < ScoreGate)
    /\ (t.consensus >= ConsensusGate \/ (t.authority >= 1 /\ mom >= 2))

\* A variant that keeps the new keys only.
Marked_Alone(store, keys) == keys

\* seen[key] = True, for each of the keys
Marked(store, keys) == store \cup keys

Bump(times, link) ==
    IF link \in DOMAIN times
    THEN [times EXCEPT ![link] = IF @ < 2 THEN @ + 1 ELSE @]
    ELSE times

\* run_breaking_news up to its loop
BreakingStart(f, d, n) ==
    /\ pc = "idle"
    /\ task' = "breaking"
    /\ runs < MaxRuns
    /\ runs' = runs + 1
    /\ feed' = f /\ delay' = d /\ nitter' = n /\ faults' = NoFaults
    /\ seen' = seenFile
    /\ seenBefore' = seenFile /\ okKeys' = {} /\ failedKeys' = {} /\ sends' = << >>
    /\ pool' = Take(fetch_rss_news(f, d, NoFaults), BreakingPoolLimit)
    /\ LET items == SelectSeq(pool', LAMBDA a : a.is_breaking)
       IN  IF items = << >>
           THEN /\ pc' = "returned"
                /\ result' = "no-post"
                /\ UNCHANGED breakV
           ELSE /\ pc' = "breaking"
                /\ momentum' = Momentum(n)
                /\ scored' = Scored(items, momentum')
                /\ idx' = 1
                /\ posted' = 0
                /\ UNCHANGED result
    /\ UNCHANGED <<extraV, images, redone, storeV, digestV, picked, resent, postedTimes>>

InBreakingLoop ==
    /\ pc = "breaking"
    /\ idx <= Len(scored)
    /\ ~PostLimitReached(posted)

\* one iteration that ends in a `continue`
BreakingSkip ==
    /\ InBreakingLoop
    /\ \/ AlreadySeen(scored[idx].a.link, seen)
       \/ ~PassesGates(scored[idx], momentum)
    /\ idx' = idx + 1
    /\ UNCHANGED <<extraV, pc, task, runs, inputV, fetchV, storeV, seen, scored, momentum, posted,
                   digestV, picked, result, histV>>

\* one iteration that hands the item to the publisher
BreakingPublish(imgOk, txtOk) ==
    /\ InBreakingLoop
    /\ ~AlreadySeen(scored[idx].a.link, seen)
    /\ PassesGates(scored[idx], momentum)
    /\ LET a == scored[idx].a
           ok == ImageThenText(a.image, imgOk, txtOk)
       IN  /\ seen' = IF ok THEN Marked(seen, {a.link}) ELSE seen
           /\ posted' = IF ok THEN posted + 1 ELSE posted
           /\ okKeys' = IF ok THEN okKeys \cup {a.link} ELSE okKeys
           /\ failedKeys' = IF ok THEN failedKeys ELSE failedKeys \cup {a.link}
           /\ postedTimes' = IF ok THEN Bump(postedTimes, a.link) ELSE postedTimes
           /\ sends' = BreakingSends(a.image, imgOk, txtOk)
           /\ resent' = IF a.link \in seen \cup seenFile
                        THEN resent \cup {"breaking"} ELSE resent
    /\ idx' = idx + 1
    /\ UNCHANGED <<extraV, pc, task, runs, inputV, fetchV, storeV, scored, momentum, digestV,
                   picked, result, seenBefore>>

\* save_json(SEEN_FILE, seen); return "ok" if posted else "no-post"
BreakingEnd ==
    /\ pc = "breaking"
    /\ idx > Len(scored) \/ PostLimitReached(posted)
    /\ seenFile' = seen
    /\ result' = IF posted > 0 THEN "ok" ELSE "no-post"
    /\ pc' = "returned"
    /\ UNCHANGED <<extraV, task, runs, inputV, fetchV, cacheFile, seen, breakV, digestV, picked, histV>>

(***************************************************************************)
(* tasks.py: the daily digest.                                             *)
(***************************************************************************)
DigestPoolLimit == 150
HoursPrimary == 24
HoursFallback == 72
FlagshipSlots == 3
DigestSize == 5
RedditCap == 1
FallbackBelow == 3

\* run_daily_digest._within, with the task's now = 0.
\* A variant that keeps the items of every age.
_within_All(items, hours) == items

_within(items, hours) ==
    SelectSeq(items, LAMBDA a : (0 - a.published) <= hours * 60)

\* run_daily_digest._spacexy
_spacexy(a) ==
    \E k \in {"spacex", "starship", "falcon", "raptor", "starbase", "elon"} :
        Contains(a.title \o a.summary, k)

\* "reddit.com" in host, for the hosts of the model.
IsReddit(host) == host \in {"reddit.com", "www.reddit.com", "old.reddit.com"}

\* run_daily_digest._maybe_add on the pair <<final, reddit_count>>.
\* A variant without the reddit cap.
_maybe_add_NoCap(item, fr) ==
    <<Append(fr[1], item), fr[2] + (IF IsReddit(item.source_host) THEN 1 ELSE 0)>>

_maybe_add(item, fr) ==
    IF IsReddit(item.source_host)
    THEN IF fr[2] >= RedditCap THEN fr
         ELSE <<Append(fr[1], item), fr[2] + 1>>
    ELSE <<Append(fr[1], item), fr[2]>>

\* for it in items: if len(final) >= limit: break; _maybe_add(it)
RECURSIVE Fill(_, _, _)
Fill(items, limit, fr) ==
    IF items = << >> \/ Len(fr[1]) >= limit THEN fr
    ELSE Fill(Tail(items), limit, _maybe_add(Head(items), fr))

\* A variant that lets the flagship partition fill the whole digest.
SelectPass_FlagshipFive(all_items, hours) ==
    LET fresh == _within(all_items, hours)
        spacex_items == SortRanked(SelectSeq(fresh, _spacexy))
        other_items == SortRanked(SelectSeq(fresh, LAMBDA a : ~_spacexy(a)))
    IN  Fill(other_items, DigestSize,
             Fill(spacex_items, DigestSize, << << >>, 0 >>))[1]

\* One selection pass of run_daily_digest over the window of `hours`.
SelectPass(all_items, hours) ==
    LET fresh == _within(all_items, hours)
        spacex_items == SortRanked(SelectSeq(fresh, _spacexy))
        other_items == SortRanked(SelectSeq(fresh, LAMBDA a : ~_spacexy(a)))
    IN  Fill(other_items, DigestSize,
             Fill(spacex_items, FlagshipSlots, << << >>, 0 >>))[1]

\* A variant that falls back only below 2 items.
NeedsFallback_Two(selected) == Len(selected) < FallbackBelow - 1

\* if len(final) < 3
NeedsFallback(selected) == Len(selected) < FallbackBelow

\* _first_with_image, for a list that is not empty
_first_with_image(items) ==
    IF \E i \in 1..Len(items) : items[i].image # NoImage
    THEN items[CHOOSE i \in 1..Len(items) :
                  /\ items[i].image # NoImage
                  /\ \A j \in 1..(i - 1) : items[j].image = NoImage]
    ELSE items[1]

Links(items) == { items[i].link : i \in 1..Len(items) }

\* run_daily_digest up to the end of its 24-hour pass.
DigestStart(f, d) ==
    /\ pc = "idle"
    /\ task' = "digest"
    /\ runs < MaxRuns
    /\ runs' = runs + 1
    /\ feed' = f /\ delay' = d /\ faults' = NoFaults
    /\ seen' = seenFile
    /\ seenBefore' = seenFile /\ okKeys' = {} /\ failedKeys' = {} /\ sends' = << >>
    /\ pool' = Take(fetch_rss_news(f, d, NoFaults), DigestPoolLimit)
    /\ final' = SelectPass(pool', HoursPrimary)
    /\ first24' = final'
    /\ passes72' = 0
    /\ pc' = IF NeedsFallback(final') THEN "digest_fallback" ELSE "digest_selected"
    /\ UNCHANGED <<extraV, nitter, images, redone, storeV, breakV, picked, result, resent,
                   postedTimes>>

\* run_daily_digest: the fallback to 72 hours.
DigestFallback ==
    /\ pc = "digest_fallback"
    /\ final' = SelectPass(pool, HoursFallback)
    /\ passes72' = passes72 + 1
    /\ pc' = "digest_selected"
    /\ UNCHANGED <<extraV, task, runs, inputV, fetchV, storeV, seen, breakV, first24, picked, result,
                   histV>>

\* if not final: return "no-post"
DigestNoPost ==
    /\ pc = "digest_selected"
    /\ final = << >>
    /\ result' = "no-post"
    /\ pc' = "returned"
    /\ UNCHANGED <<extraV, task, runs, inputV, fetchV, storeV, seen, breakV, digestV, picked, histV>>

\* run_daily_digest from the hero image to its return: the hero's image and
\* the text are sent (or the text alone), whatever the senders return every
\* link of the list is marked and the seen-store saved.
DigestPublish(imgOk, txtOk) ==
    /\ pc = "digest_selected"
    /\ final # << >>
    /\ LET top == _first_with_image(final)
           delivered == IF top.image # NoImage THEN imgOk \/ txtOk ELSE txtOk
       IN  /\ okKeys' = IF delivered THEN Links(final) ELSE {}
           /\ failedKeys' = IF delivered THEN {} ELSE Links(final)
           /\ sends' = DigestSends(top.image, imgOk, txtOk)
    /\ resent' = IF Links(final) \cap (seen \cup seenFile) # {}
                 THEN resent \cup {"digest"} ELSE resent
    /\ seen' = Marked(seen, Links(final))
    /\ seenFile' = seen'
    /\ result' = "ok"
    /\ pc' = "returned"
    /\ UNCHANGED <<extraV, task, runs, inputV, fetchV, cacheFile, breakV, digestV, picked, seenBefore,
                   postedTimes>>

(***************************************************************************)
(* tasks.py: the daily image.                                              *)
(***************************************************************************)
CacheLimit == 300

\* urlparse(src_link).netloc.lower().replace("www.", ""), on the hosts of the model
_host_of(src_link) ==
    CASE Lower(src_link.host) = "www.nasa.gov" -> "nasa.gov"
      [] Lower(src_link.host) = "www.reddit.com" -> "reddit.com"
      [] OTHER -> Lower(src_link.host)

\* A variant that takes every image as unposted.
Unposted_Always(im, store, cache) == TRUE

\* if im["url"] in seen or im["url"] in cache: continue
Unposted(im, store, cache) == ~(im.url \in store \/ im.url \in Range(cache.urls))

\* A variant without the loop that varies the host.
PickImage_NoVariety(imgs, store, cache) ==
    LET unposted == SelectSeq(imgs, LAMBDA im : Unposted(im, store, cache))
    IN  IF unposted # << >> THEN <<unposted[1]>> ELSE << >>

\* the first loop of run_daily_image, which passes over the last host, then
\* its fallback loop: a list of at most one image
PickImage(imgs, store, cache) ==
    LET last_host == cache.last_host
        varied == SelectSeq(imgs, LAMBDA im :
                     /\ Unposted(im, store, cache)
                     /\ ~(_host_of(im.source_link) # "" /\ last_host # ""
                          /\ _host_of(im.source_link) = last_host))
        unposted == SelectSeq(imgs, LAMBDA im : Unposted(im, store, cache))
    IN  IF varied # << >> THEN <<varied[1]>>
        ELSE IF unposted # << >> THEN <<unposted[1]>>
        ELSE << >>

\* cache[url] = ...; cache["_last_host"] = ...; the trim to the newest 300 urls
CacheAfter(cache, im) ==
    LET urls == Append(cache.urls, im.url)
    IN  [urls |-> IF Len(urls) > CacheLimit
                  THEN SubSeq(urls, Len(urls) - CacheLimit + 1, Len(urls))
                  ELSE urls,
         last_host |-> _host_of(im.source_link)]

\* run_daily_image up to the pick
ImageStart(entries) ==
    /\ pc = "idle"
    /\ task' = "image"
    /\ runs < MaxRuns
    /\ runs' = runs + 1
    /\ images' = entries
    /\ seen' = seenFile
    /\ seenBefore' = seenFile /\ okKeys' = {} /\ failedKeys' = {} /\ sends' = << >>
    /\ picked' = PickImage(fetch_images(entries), seenFile, cacheFile)
    /\ IF picked' = << >>
       THEN pc' = "returned" /\ result' = "no-post"
       ELSE pc' = "image_send" /\ UNCHANGED result
    /\ UNCHANGED <<extraV, feed, delay, nitter, faults, fetchV, storeV, breakV, digestV, resent,
                   postedTimes>>

\* if send_telegram_image(...): mark, cache, save both files, "ok"; else "fail"
ImageSend(ok) ==
    /\ pc = "image_send"
    /\ LET im == picked[1]
       IN  /\ seen' = IF ok THEN Marked(seen, {im.url}) ELSE seen
           /\ seenFile' = IF ok THEN seen' ELSE seenFile
           /\ cacheFile' = IF ok THEN CacheAfter(cacheFile, im) ELSE cacheFile
           /\ okKeys' = IF ok THEN {im.url} ELSE {}
           /\ failedKeys' = IF ok THEN {} ELSE {im.url}
           /\ sends' = <<Send("image", "caption", ok, TRUE)>>
           /\ resent' = IF im.url \in seen \cup seenFile
                        THEN resent \cup {"image"} ELSE resent
    /\ result' = IF ok THEN "ok" ELSE "fail"
    /\ pc' = "returned"
    /\ UNCHANGED <<extraV, task, runs, inputV, fetchV, breakV, digestV, picked, seenBefore, postedTimes>>

(***************************************************************************)
(* The task specification: the scheduler starts one task at a time         *)
(* (breaking news, daily digest, daily image) on what the feed sources     *)
(* return then; the seen-store and the image cache persist in between.     *)
(***************************************************************************)
\* The entries the news feeds can return; a feed returns some of them, in
\* this order (the spacenews feed before the reddit feed).
RunCatalog ==
    << [feed |-> 2, title |-> <<"Starship", "launch">>,
        link |-> [host |-> "spacenews.com", path |-> <<"a">>],
        summary |-> << >>, dated |-> TRUE, published |-> -3, image |-> "a.jpg"],
       [feed |-> 2, title |-> <<"mars", "base">>,
        link |-> [host |-> "spacenews.com", path |-> <<"c">>],
        summary |-> << >>, dated |-> TRUE, published |-> -15, image |-> NoImage],
       [feed |-> 2, title |-> <<"mars", "base", "!">>,
        link |-> [host |-> "spacenews.com", path |-> <<"a">>],
        summary |-> << >>, dated |-> TRUE, published |-> -5, image |-> NoImage],
       [feed |-> 2, title |-> <<"mars", "base">>,
        link |-> [host |-> "spacenews.com", path |-> <<"d">>],
        summary |-> << >>, dated |-> TRUE, published |-> -720, image |-> "d.jpg"],
       [feed |-> 2, title |-> <<"Starship", "launch">>,
        link |-> [host |-> "spacenews.com", path |-> <<"u">>],
        summary |-> << >>, dated |-> FALSE, published |-> -1, image |-> "u.jpg"],
       [feed |-> 3, title |-> <<"Starship", "launch">>,
        link |-> [host |-> "www.reddit.com", path |-> <<"r", "b">>],
        summary |-> << >>, dated |-> TRUE, published |-> -4, image |-> NoImage] >>

\* The sub-sequences of a catalog with at most n entries.
SubSeqs(catalog, n) ==
    { SelectSeq(catalog, LAMBDA e : e \in S) :
        S \in { T \in SUBSET Range(catalog) : Cardinality(T) <= n } }

RunFeeds == SubSeqs(RunCatalog, MaxRunFeed)
RunLinks == Links(RunCatalog)
FetchDelays == {0, 1}

NitterInputs ==
    { << >>, << <<"Starship", "liftoff">>, <<"launch", "scrub">> >> }

ImageCatalog ==
    << [url |-> [host |-> "images.nasa.gov", path |-> <<"u1.jpg">>],
        source_link |-> [host |-> "www.nasa.gov", path |-> <<"iotd", "1">>],
        dated |-> TRUE, published |-> -60],
       [url |-> [host |-> "esahubble.org", path |-> <<"u2.jpg">>],
        source_link |-> [host |-> "esahubble.org", path |-> <<"potw", "2">>],
        dated |-> TRUE, published |-> -120],
       [url |-> [host |-> "images.nasa.gov", path |-> <<"u3.jpg">>],
        source_link |-> [host |-> "www.nasa.gov", path |-> <<"iotd", "3">>],
        dated |-> TRUE, published |-> -180] >>

ImageInputs == SubSeqs(ImageCatalog, Len(ImageCatalog))

\* What holds between two invocations.
AtRest ==
    /\ feed = << >> /\ delay = 0 /\ nitter = << >> /\ images = << >>
    /\ faults = NoFaults
    /\ pool = << >> /\ redone = << >>
    /\ seen = {}
    /\ scored = << >> /\ momentum = 0 /\ idx = 0 /\ posted = 0
    /\ final = << >> /\ first24 = << >> /\ passes72 = 0
    /\ picked = << >>
    /\ result = "none"
    /\ seenBefore = {} /\ okKeys = {} /\ failedKeys = {} /\ sends = << >>

TaskInit ==
    /\ pc = "idle"
    /\ task = "none"
    /\ runs = 0
    /\ AtRest
    /\ seenFile = {}
    /\ cacheFile = [urls |-> << >>, last_host |-> ""]
    /\ resent = {}
    /\ postedTimes = [l \in RunLinks |-> 0]

Init == TaskInit /\ ExtraAtRest

\* The task has returned; the next invocation starts from scratch.
Return ==
    /\ pc = "returned"
    /\ pc' = "idle"
    /\ task' = "none"
    /\ feed' = << >> /\ delay' = 0 /\ nitter' = << >> /\ images' = << >>
    /\ faults' = NoFaults
    /\ pool' = << >> /\ redone' = << >>
    /\ seen' = {}
    /\ scored' = << >> /\ momentum' = 0 /\ idx' = 0 /\ posted' = 0
    /\ final' = << >> /\ first24' = << >> /\ passes72' = 0
    /\ picked' = << >>
    /\ result' = "none"
    /\ seenBefore' = {} /\ okKeys' = {} /\ failedKeys' = {} /\ sends' = << >>
    /\ UNCHANGED <<extraV, runs, storeV, resent, postedTimes>>

\* The digest reads no freshness flag and the feeds hold no entry near the
\* 48-hour limit, so its fetch is taken at the task's own `now`.
Next ==
    \/ \E f \in RunFeeds, d \in FetchDelays, n \in NitterInputs : BreakingStart(f, d, n)
    \/ BreakingSkip
    \/ \E imgOk, txtOk \in BOOLEAN : BreakingPublish(imgOk, txtOk)
    \/ BreakingEnd
    \/ \E f \in RunFeeds : DigestStart(f, 0)
    \/ DigestFallback
    \/ DigestNoPost
    \/ \E imgOk, txtOk \in BOOLEAN : DigestPublish(imgOk, txtOk)
    \/ \E entries \in ImageInputs : ImageStart(entries)
    \/ \E ok \in BOOLEAN : ImageSend(ok)
    \/ Return

Spec == Init /\ [][Next]_vars

\* Would the loop publish this candidate, were its link not in the seen-store?
Eligible(t) == PassesGates(t, momentum)

\* C1: no link is published as breaking more than once, and run_breaking_news
\* never hands the publisher an item whose link is in the seen-store.
C1_NoBreakingRepost ==
    /\ \A l \in RunLinks : postedTimes[l] <= 1
    /\ "breaking" \notin resent

\* A second invocation has passed over one eligible item whose link an earlier
\* invocation had published, and over another whose link it had itself
\* published a moment before.
C1_Witness ==
    /\ pc = "breaking"
    /\ \E i \in 1..(idx - 1) :
          /\ Eligible(scored[i])
          /\ scored[i].a.link \in seenBefore
          /\ postedTimes[scored[i].a.link] = 1
    /\ \E i \in 1..(idx - 1) : \E k \in 1..(i - 1) :
          /\ Eligible(scored[i])
          /\ scored[i].a.link = scored[k].a.link
          /\ scored[i].a.link \in okKeys \ seenBefore

\* C2: one invocation of run_breaking_news publishes at most 2 items.
C2_AtMostTwoPosts ==
    task = "breaking" =>
        /\ posted <= 2
        /\ Cardinality(okKeys) <= 2

\* Two items are out and a third eligible, unseen candidate is left behind.
C2_Witness ==
    /\ pc = "breaking"
    /\ posted = 2
    /\ idx <= Len(scored)
    /\ Eligible(scored[idx])
    /\ scored[idx].a.link \notin seen

\* C3: a key enters the seen-store only after its publish succeeded: when a
\* task has returned, every key it added was published, and no key whose
\* publish failed was added.
C3_MarkedOnlyAfterSuccess ==
    pc = "returned" =>
        /\ (seenFile \ seenBefore) \subseteq okKeys
        /\ ((failedKeys \ okKeys) \cap seenFile) \subseteq seenBefore

\* C4: no task hands the publisher a key that is in the seen-store, and the
\* list run_daily_digest selects holds no link of the seen-store.
C4_SeenNeverHanded ==
    /\ resent = {}
    /\ pc = "digest_selected" => Links(final) \cap seenFile = {}

(***************************************************************************)
(* Inputs of the dedupe specification: the entries a feed source can       *)
(* return.  A link with a host comes from the feed of that host; a         *)
(* relative link (no host) can come from either of the first two feeds.    *)
(***************************************************************************)
DedupeTitles ==
    { <<"NASA", "Moon", "Base">>, <<"moon", "base", "!">>, <<"Starship", "launch">> }

DedupeLinks ==
    { [feed |-> 1, link |-> [host |-> "www.nasa.gov", path |-> <<"news", "moon-base">>]],
      [feed |-> 1, link |-> [host |-> "www.nasa.gov", path |-> <<"blog", "", "Moon-Base", "">>]],
      [feed |-> 1, link |-> [host |-> "", path |-> <<"moon-base">>]],
      [feed |-> 2, link |-> [host |-> "", path |-> <<"moon-base">>]],
      [feed |-> 2, link |-> [host |-> "spacenews.com", path |-> <<"moon-base">>]] }

DedupeEntries ==
    { [feed |-> fl.feed, title |-> t, link |-> fl.link, summary |-> s,
       dated |-> TRUE, published |-> p, image |-> NoImage] :
        fl \in DedupeLinks, t \in DedupeTitles, s \in { << >>, <<"liftoff">> },
        p \in { -3, -600 } }

\* The entries of one feed are consecutive, and the feeds come in the order
\* of RSS_FEEDS.
GroupedByFeed(entries) ==
    \A i \in 1..(Len(entries) - 1) : entries[i].feed <= entries[i + 1].feed

SeqsUpTo(S, n) == UNION { [1..k -> S] : k \in 0..n }

DedupeFeeds == { f \in SeqsUpTo(DedupeEntries, MaxFeed) : GroupedByFeed(f) }

\* The same entries in another processing order.
Reorderings(entries) ==
    { [i \in 1..Len(entries) |-> entries[p[i]]] :
        p \in { q \in [1..Len(entries) -> 1..Len(entries)] :
                  \A i, j \in 1..Len(entries) : i # j => q[i] # q[j] } }

(***************************************************************************)
(* The dedupe specification: fetch_rss_news on a feed, then the dedupe     *)
(* step once more on the pool it returned.                                 *)
(***************************************************************************)
InitDedupe ==
    /\ pc = "input"
    /\ feed \in DedupeFeeds
    /\ task = "none"
    /\ runs = 0
    /\ delay = 0 /\ nitter = << >> /\ images = << >> /\ faults = NoFaults
    /\ pool = << >> /\ redone = << >>
    /\ seen = {}
    /\ scored = << >> /\ momentum = 0 /\ idx = 0 /\ posted = 0
    /\ final = << >> /\ first24 = << >> /\ passes72 = 0
    /\ picked = << >>
    /\ result = "none"
    /\ seenBefore = {} /\ okKeys = {} /\ failedKeys = {} /\ sends = << >>
    /\ seenFile = {}
    /\ cacheFile = [urls |-> << >>, last_host |-> ""]
    /\ resent = {}
    /\ postedTimes = [l \in RunLinks |-> 0]
    /\ ExtraAtRest

FetchPool ==
    /\ pc = "input"
    /\ pool' = fetch_rss_news(feed, delay, faults)
    /\ pc' = "fetched"
    /\ UNCHANGED <<extraV, task, runs, inputV, redone, storeV, seen, breakV, digestV, picked, result, histV>>

DedupeAgain ==
    /\ pc = "fetched"
    /\ redone' = DedupePool(pool, {})
    /\ pc' = "deduped"
    /\ UNCHANGED <<extraV, task, runs, inputV, pool, storeV, seen, breakV, digestV, picked, result, histV>>

NextDedupe == FetchPool \/ DedupeAgain

SpecDedupe == InitDedupe /\ [][NextDedupe]_vars

\* C9: deduplication is idempotent: the dedupe step applied to the pool that
\* fetch_rss_news returned gives back exactly that pool.
C9_DedupeIdempotent == pc = "deduped" => redone = pool

\* A pool from which the first pass removed a duplicate, deduplicated again.
C9_Witness ==
    /\ pc = "deduped"
    /\ Len(pool) >= 1
    /\ Len(pool) < Len(feed)

\* C10: the set of articles kept does not depend on the order in which the
\* entries are processed.
C10_OrderIndependent ==
    pc = "fetched" =>
        \A r \in { q \in Reorderings(feed) : GroupedByFeed(q) } :
            Range(fetch_rss_news(r, delay, NoFaults)) = Range(pool)

(***************************************************************************)
(* The digest specification: the feed source publishes entries, then       *)
(* run_daily_digest selects its list.  An entry is spacexy or not, from    *)
(* reddit (feed 3) or from spacenews (feed 2), and 12, 36 or 60 hours old; *)
(* its link ends in its position in the feed, so no two entries share a    *)
(* duplicate key.                                                          *)
(***************************************************************************)
Slugs == <<"p1", "p2", "p3", "p4", "p5", "p6", "p7", "p8">>

DigestKinds ==
    [i \in 1..12 |->
        [reddit |-> i > 6, spacexy |-> ((i - 1) % 6) >= 3,
         published |-> CASE (i - 1) % 3 = 0 -> -720
                         [] (i - 1) % 3 = 1 -> -2160
                         [] OTHER -> -3600]]

DigestEntry(k, n) ==
    [feed |-> IF DigestKinds[k].reddit THEN 3 ELSE 2,
     title |-> IF DigestKinds[k].spacexy THEN <<"Starship", "test">>
               ELSE <<"moon", "base">>,
     link |-> [host |-> IF DigestKinds[k].reddit THEN "www.reddit.com"
                        ELSE "spacenews.com",
               path |-> <<"a", Slugs[n]>>],
     summary |-> << >>, dated |-> TRUE,
     published |-> DigestKinds[k].published, image |-> NoImage,
     kind |-> k]

InitDigest == Init

\* The feed source publishes one more entry (kinds in ascending order, so
\* every multiset of kinds is one feed).
FeedPublishes ==
    /\ pc = "idle"
    /\ Len(feed) < MaxDigestFeed
    /\ \E k \in 1..12 :
          /\ IF feed = << >> THEN TRUE ELSE feed[Len(feed)].kind <= k
          /\ feed' = Append(feed, DigestEntry(k, Len(feed) + 1))
    /\ UNCHANGED <<extraV, pc, task, runs, delay, nitter, images, faults, fetchV, storeV, seen, breakV, digestV,
                   picked, result, histV>>

NextDigest == FeedPublishes \/ DigestStart(feed, 0) \/ DigestFallback

SpecDigest == InitDigest /\ [][NextDigest]_vars

RedditIn(items) == Cardinality({i \in 1..Len(items) : IsReddit(items[i].source_host)})
FlagshipIn(items) == Cardinality({i \in 1..Len(items) : _spacexy(items[i])})

\* The window of the pass that produced `final`.
WindowedPool ==
    _within(pool, IF passes72 > 0 THEN HoursFallback ELSE HoursPrimary)

\* C5: the list selected by either pass holds at most 1 item of a reddit host.
C5_RedditCap ==
    pc \in {"digest_fallback", "digest_selected"} => RedditIn(final) <= 1

\* The fallback pass skipped a second reddit item although slots were left.
C5_Witness ==
    /\ pc = "digest_selected"
    /\ passes72 = 1
    /\ RedditIn(WindowedPool) >= 2
    /\ RedditIn(final) = 1
    /\ Len(final) < 5

\* C6: the 72-hour pass runs exactly when the 24-hour pass selected fewer
\* than 3 items, at most once, and otherwise the list is the 24-hour one.
C6_FallbackOnlyWhenSparse ==
    /\ passes72 <= 1
    /\ pc = "digest_fallback" => Len(first24) < 3
    /\ pc = "digest_selected" =>
          /\ passes72 = 1 <=> Len(first24) < 3
          /\ Len(first24) >= 3 => final = first24

\* The fallback ran and changed the list.
C6_Witness ==
    /\ pc = "digest_selected"
    /\ passes72 = 1
    /\ Len(first24) = 2
    /\ Len(final) > 2

\* C7: every dated entry of the feeds that is at most 72 hours old is a
\* candidate of the fallback pass.
C7_FallbackSees72Hours ==
    (pc = "digest_selected" /\ passes72 = 1) =>
        \A i \in 1..Len(feed) :
            (feed[i].dated /\ (0 - feed[i].published) <= 72 * 60) =>
                \E a \in Range(_within(pool, HoursFallback)) : a.link = feed[i].link

\* C8: at most 5 items, at most 3 of them flagship, flagship items first,
\* and a small enough window is taken whole.
C8_DigestShape ==
    pc = "digest_selected" =>
        /\ Len(final) <= 5
        /\ FlagshipIn(final) <= 3
        /\ \A i, j \in 1..Len(final) :
              (_spacexy(final[j]) /\ ~_spacexy(final[i])) => j < i
        /\ (FlagshipIn(WindowedPool) <= 3 /\ Len(WindowedPool) <= 5
               /\ RedditIn(WindowedPool) <= 1) =>
              Range(final) = Range(WindowedPool)

\* The window holds more than fits: 5 are taken, 3 of them flagship.
C8_Witness ==
    /\ pc = "digest_selected"
    /\ FlagshipIn(WindowedPool) > 3
    /\ Len(WindowedPool) > 5
    /\ Len(final) = 5
    /\ FlagshipIn(final) = 3

(***************************************************************************)
(* The representative of a duplicate key (dedupe specification).           *)
(***************************************************************************)
\* source_host = _host(link) or _host(feed_url)
SourceHostOf(e) ==
    IF _host(e.link) # "" THEN _host(e.link) ELSE _host(RSS_FEEDS[e.feed])

\* s = score_article(title, summary); s += SOURCE_WEIGHTS.get(source_host, 2)
ScoreOf(e) == score_article(e.title, e.summary) + SOURCE_WEIGHTS(SourceHostOf(e))

\* The entries of the feed that fetch_rss_news does not drop for their date.
Candidates ==
    { i \in 1..Len(feed) :
        feed[i].dated /\ ~((delay - feed[i].published) > HoursFetch * 60) }

\* C11: of the items that share one dedupe key, the one kept has the highest
\* score, and among equally scored ones the newest published time.
C11_KeepsBestOfKey ==
    pc = "fetched" =>
        \A a \in Range(pool) : \A i \in Candidates :
            DupKey(SourceHostOf(feed[i]), feed[i].title, feed[i].link)
                = DupKey(a.source_host, a.title, a.link)
            => ~KeyBefore(<<ScoreOf(feed[i]), feed[i].published>>,
                          <<a.score, a.published>>)

\* C12: no two items of the deduplicated pool have the same link.
C12_OneItemPerLink ==
    pc = "fetched" =>
        \A i, j \in 1..Len(pool) : i # j => pool[i].link # pool[j].link

\* C13: two items of different source hosts whose titles have the same title
\* key are duplicates: only the higher-scored one stays in the pool.
C13_CrossHostDuplicates ==
    pc = "fetched" =>
        /\ \A i, j \in 1..Len(pool) :
              (i # j /\ pool[i].source_host # pool[j].source_host)
              => _title_key(pool[i].title) # _title_key(pool[j].title)
        /\ \A a \in Range(pool) : \A i \in Candidates :
              (SourceHostOf(feed[i]) # a.source_host
               /\ _title_key(feed[i].title) = _title_key(a.title))
              => ScoreOf(feed[i]) <= a.score

(***************************************************************************)
(* Freshness (task specification).  fetch_rss_news evaluates an item at    *)
(* its own `now`, `delay` minutes after the task's.                        *)
(***************************************************************************)
\* C14: at the time fetch_rss_news evaluates it, a super-breaking item is at
\* most 5 minutes old and a breaking item at most 15; super-breaking implies
\* breaking; and run_breaking_news ranks and publishes only breaking items.
C14_FreshnessFlags ==
    /\ \A a \in Range(pool) :
          /\ a.is_super_breaking => (delay - a.published) <= 5
          /\ a.is_breaking => (delay - a.published) <= 15
          /\ a.is_super_breaking => a.is_breaking
    /\ task = "breaking" =>
          /\ \A i \in 1..Len(scored) : scored[i].a.is_breaking
          /\ \A l \in okKeys \cup failedKeys :
                \E i \in 1..Len(scored) : scored[i].a.link = l

\* A breaking run has published an item while the pool also held an item
\* that is not breaking and one that is breaking but not super-breaking.
C14_Witness ==
    /\ task = "breaking"
    /\ okKeys # {}
    /\ \E a \in Range(pool) : ~a.is_breaking
    /\ \E a \in Range(pool) : a.is_breaking /\ ~a.is_super_breaking
    /\ \E a \in Range(pool) : a.is_super_breaking

\* The links that only entries without a parsable time carry.
UndatedLinks ==
    { feed[i].link : i \in { j \in 1..Len(feed) : ~feed[j].dated } }
    \ { feed[i].link : i \in { j \in 1..Len(feed) : feed[j].dated } }

\* C15: an entry without a parsable published or updated time is never in the
\* pool (so never flagged breaking), never ranked or published by the breaking
\* task, and never in a digest.
C15_UndatedNeverUsed ==
    /\ UndatedLinks \cap Links(pool) = {}
    /\ UndatedLinks \cap { scored[i].a.link : i \in 1..Len(scored) } = {}
    /\ UndatedLinks \cap (Links(final) \cup Links(first24)) = {}
    /\ UndatedLinks \cap (okKeys \cup failedKeys) = {}

\* A breaking run published an item of a feed that also held an undated entry.
C15_Witness ==
    /\ task = "breaking"
    /\ UndatedLinks # {}
    /\ okKeys # {}

(***************************************************************************)
(* Lookback windows (digest specification).                                *)
(***************************************************************************)
\* C16: an item older than the lookback window is excluded, not down-ranked:
\* the fetched pool holds no item older than 48 hours, and the list of the
\* 24-hour pass holds no item older than 24 hours.
C16_TooOldExcluded ==
    /\ \A a \in Range(pool) : (delay - a.published) <= 48 * 60
    /\ pc \in {"digest_fallback", "digest_selected"} =>
          \A a \in Range(first24) : (0 - a.published) <= 24 * 60
    /\ (pc = "digest_selected" /\ passes72 = 0) =>
          \A a \in Range(final) : (0 - a.published) <= 24 * 60

\* The 24-hour pass made the digest with slots to spare, although the feed
\* held a flagship entry 36 hours old that outranks the items taken, and an
\* entry 60 hours old.
C16_Witness ==
    /\ pc = "digest_selected"
    /\ passes72 = 0
    /\ Len(final) \in 3..4
    /\ \E a \in Range(final) : ~_spacexy(a)
    /\ \E a \in Range(pool) : _spacexy(a) /\ (0 - a.published) > 24 * 60
    /\ \E i \in 1..Len(feed) : (0 - feed[i].published) > 48 * 60

(***************************************************************************)
(* The fault specification: fetch_rss_news on three feeds of which some    *)
(* raise in feedparser.parse and some return an entry whose processing     *)
(* raises.  Every entry is dated and fresh and has a link of its own, so   *)
(* only an exception can keep it out of the pool.                          *)
(***************************************************************************)
FaultEntry(f, slug) ==
    [feed |-> f, title |-> <<"moon", "base">>,
     link |-> [host |-> RSS_FEEDS[f].host, path |-> <<slug>>],
     summary |-> << >>, dated |-> TRUE, published |-> -30, image |-> NoImage]

FaultCatalog ==
    << FaultEntry(1, "p1"), FaultEntry(1, "p2"), FaultEntry(2, "p3"),
       FaultEntry(2, "p4"), FaultEntry(3, "p5"), FaultEntry(3, "p6") >>

FaultFeeds == SubSeqs(FaultCatalog, MaxFaultFeed)

FaultInputs(entries) ==
    [feeds : SUBSET (1..Len(RSS_FEEDS)), entries : SUBSET (1..Len(entries))]

InitFaults ==
    /\ pc = "input"
    /\ feed \in FaultFeeds
    /\ faults \in FaultInputs(feed)
    /\ task = "none"
    /\ runs = 0
    /\ delay = 0 /\ nitter = << >> /\ images = << >>
    /\ pool = << >> /\ redone = << >>
    /\ seen = {}
    /\ scored = << >> /\ momentum = 0 /\ idx = 0 /\ posted = 0
    /\ final = << >> /\ first24 = << >> /\ passes72 = 0
    /\ picked = << >>
    /\ result = "none"
    /\ seenBefore = {} /\ okKeys = {} /\ failedKeys = {} /\ sends = << >>
    /\ seenFile = {}
    /\ cacheFile = [urls |-> << >>, last_host |-> ""]
    /\ resent = {}
    /\ postedTimes = [l \in RunLinks |-> 0]
    /\ ExtraAtRest

NextFaults == FetchPool

SpecFaults == InitFaults /\ [][NextFaults]_vars

\* A feed in whose try block nothing raises.
CleanFeed(f) ==
    /\ f \notin faults.feeds
    /\ \A i \in faults.entries : feed[i].feed # f

\* C17: an error raised for one feed does not abort the run: every item of
\* every other feed, before or after the failing one, is in the pool.
C17_OtherFeedsSurvive ==
    pc = "fetched" =>
        \A i \in 1..Len(feed) :
            CleanFeed(feed[i].feed) => feed[i].link \in Links(pool)

\* The parse of the second feed raised; the entries of the first and of the
\* third feed are in the pool and those of the second are not.
C17_Witness ==
    /\ pc = "fetched"
    /\ faults = [feeds |-> {2}, entries |-> {}]
    /\ \A f \in 1..3 : \E i \in 1..Len(feed) : feed[i].feed = f
    /\ \A i \in 1..Len(feed) : feed[i].feed = 2 <=> feed[i].link \notin Links(pool)

\* C18: an exception raised for one malformed entry does not stop the
\* processing: every other entry, the later entries of the same feed
\* included, is in the pool.
C18_MalformedEntryIsolated ==
    (pc = "fetched" /\ faults.feeds = {} /\ Cardinality(faults.entries) = 1) =>
        \A i \in 1..Len(feed) :
            i \notin faults.entries => feed[i].link \in Links(pool)

(***************************************************************************)
(* What a task returns (task specification).                               *)
(***************************************************************************)
\* C20: when a task selected at least one item and every publish of the
\* invocation failed, it returns a failure, neither "ok" nor "no-post"; and
\* "no-post" is returned only when nothing was handed to the publisher.
C20_FailureIsDistinct ==
    pc = "returned" =>
        /\ (failedKeys # {} /\ okKeys = {}) => result \notin {"ok", "no-post"}
        /\ result = "no-post" => (failedKeys = {} /\ okKeys = {})

(***************************************************************************)
(* Image first, text as the fallback (task specification).                 *)
(***************************************************************************)
\* C19: an item with an image is sent as an image first; a text-only send is
\* made exactly when the image send failed or the item has no image; and the
\* text sent after a failed image carries what the image carried.
C19_TextOnlyAfterImageFailed ==
    (task \in {"breaking", "digest"} /\ sends # << >>) =>
        /\ sends[1].withImage => sends[1].kind = "image"
        /\ (\E i \in 1..Len(sends) : sends[i].kind = "text")
              <=> (~sends[1].withImage \/ ~sends[1].ok)
        /\ \A i \in 1..Len(sends) :
              (sends[i].kind = "image" /\ ~sends[i].ok) =>
                  \E j \in (i + 1)..Len(sends) :
                      sends[j].kind = "text" /\ sends[j].content = sends[i].content

(***************************************************************************)
(* The publisher specification: send_telegram_image and                    *)
(* send_telegram_message at work on one item after the other, the image    *)
(* first and the text if the image call returned False.  requests.post     *)
(* answers 200, answers another status, or raises (a timeout included).    *)
(***************************************************************************)
HttpOutcomes == {"200", "non200", "exception"}

\* A variant whose retry may retry again.
RetryArg_Same(retry) == retry

\* return send_telegram_message(text, buttons, disable_preview, retry=False)
RetryArg(retry) == FALSE

\* A call of send_telegram_image (phase "image") or send_telegram_message
\* (phase "text") has returned ok:
\*   ok = False; if image: ok = send_telegram_image(...)
\*   if not ok: ok = send_telegram_message(...)
Returned(p, ok) ==
    IF p.phase = "image" /\ ~ok
    THEN [p EXCEPT !.phase = "text", !.retry = TRUE, !.resp = << >>,
                   !.calls = @ + 1]
    ELSE [p EXCEPT !.phase = "done", !.ok = ok]

\* An item is handed to the publisher.
PublishItem(hasImage, configured) ==
    /\ pub.phase \in {"idle", "done"}
    /\ pub.items < MaxSendItems
    /\ pub' = [phase |-> IF hasImage THEN "image" ELSE "text",
               hasImage |-> hasImage, configured |-> configured, retry |-> TRUE,
               resp |-> << >>, calls |-> 1, total |-> 0, ok |-> FALSE,
               items |-> pub.items + 1]
    /\ UNCHANGED exceptPub

\* if not bot or not chat: return False
SendUnconfigured ==
    /\ pub.phase \in {"image", "text"}
    /\ ~pub.configured
    /\ pub' = Returned(pub, FALSE)
    /\ UNCHANGED exceptPub

\* r = requests.post(...); ok = (r.status_code == 200); if not ok and retry:
\* return the result of the same call with retry=False; return ok;
\* except Exception: return False
SendPost(r) ==
    /\ pub.phase \in {"image", "text"}
    /\ pub.configured
    /\ LET p == [pub EXCEPT !.resp = Append(@, r), !.total = @ + 1]
       IN  pub' = CASE r = "200" -> Returned(p, TRUE)
                    [] r = "exception" -> Returned(p, FALSE)
                    [] OTHER -> IF pub.retry
                                THEN [p EXCEPT !.retry = RetryArg(pub.retry)]
                                ELSE Returned(p, FALSE)
    /\ UNCHANGED exceptPub

InitSend == Init

NextSend ==
    \/ \E hasImage, configured \in BOOLEAN : PublishItem(hasImage, configured)
    \/ SendUnconfigured
    \/ \E r \in HttpOutcomes : SendPost(r)

SpecSend == InitSend /\ [][NextSend]_vars

\* C21: one call makes at most 2 HTTP attempts, the second only after a
\* non-200 answer to the first; a call in progress can always go on, and an
\* item done has a boolean result after at most 4 attempts.
C21_BoundedSends ==
    /\ Len(pub.resp) <= 2
    /\ Len(pub.resp) = 2 => pub.resp[1] = "non200"
    /\ pub.calls <= 2
    /\ pub.total <= 4
    /\ pub.phase \in {"image", "text"} => (ENABLED SendUnconfigured \/ ENABLED SendPost("200"))
    /\ pub.phase = "done" => pub.ok \in BOOLEAN

\* An item with an image is done after 4 attempts, all of them failed.
C21_Witness ==
    /\ pub.phase = "done"
    /\ pub.hasImage
    /\ pub.total = 4
    /\ ~pub.ok

(***************************************************************************)
(* The order in which run_breaking_news considers its candidates.         *)
(***************************************************************************)
\* C22: when an item has been published by the breaking task, every
\* candidate that ranks above it by flagship topic, then by the article's
\* relevance score, then by recency (each descending) has been considered
\* before it: none is still waiting in the loop unseen and eligible.  (The
\* published item is told by its link, which no other candidate shares.)
C22_RankedByTopicThenRelevance ==
    LET flagship(t) == IF _spacexy(t.a) THEN 1 ELSE 0
        RankedAbove(t, u) ==
            \/ flagship(t) > flagship(u)
            \/ flagship(t) = flagship(u) /\ t.a.score > u.a.score
            \/ /\ flagship(t) = flagship(u) /\ t.a.score = u.a.score
               /\ t.a.published > u.a.published
    IN  pc = "breaking" =>
            \A j \in 1..(idx - 1) : \A i \in idx..Len(scored) :
                (/\ scored[j].a.link \in okKeys
                 /\ \A k \in 1..Len(scored) :
                        scored[k].a.link = scored[j].a.link => k = j
                 /\ RankedAbove(scored[i], scored[j]))
                    => (AlreadySeen(scored[i].a.link, seen) \/ ~Eligible(scored[i]))

(***************************************************************************)
(* The gates of a breaking post.                                           *)
(***************************************************************************)
\* The candidates of the run that carry the link l and were reached by the loop.
ReachedWith(l) == { j \in 1..(idx - 1) : scored[j].a.link = l }

\* C23: every link published by the breaking task belongs to a candidate
\* whose total score is at least 8 and that has a consensus of 2 hosts or an
\* authority of 1 or more together with Nitter momentum; the link of a
\* candidate of a zero-authority source without a second host is not
\* published for that candidate.
C23_PublishedPassedGates ==
    pc = "breaking" =>
        /\ \A l \in okKeys : \E j \in ReachedWith(l) :
              /\ scored[j].score >= 80
              /\ \/ scored[j].consensus >= 2
                 \/ (scored[j].authority >= 1 /\ momentum = 2)
        /\ \A l \in okKeys :
              ~(\A j \in ReachedWith(l) :
                    scored[j].authority = 0 /\ scored[j].consensus < 2)

\* Both ways through the gates were taken in one run: a link published on
\* consensus from a zero-authority source, and one published on authority
\* and momentum without a second host.
C23_Witness ==
    /\ pc = "breaking"
    /\ \E l \in okKeys : \A j \in ReachedWith(l) :
          scored[j].authority = 0 /\ scored[j].consensus >= 2
    /\ \E l \in okKeys : \A j \in ReachedWith(l) :
          scored[j].consensus < 2 /\ scored[j].authority >= 1 /\ momentum = 2

(***************************************************************************)
(* The hero of the digest.                                                 *)
(***************************************************************************)
\* C24: the hero of a published digest, whose image heads the post and
\* whose link is the top-story button, is the first item of the digest list.
C24_HeroIsFirstItem ==
    (task = "digest" /\ pc = "returned" /\ result = "ok")
        => _first_with_image(final) = final[1]

(***************************************************************************)
(* The pick of the daily image.                                            *)
(***************************************************************************)
\* The places, in the list of fetch_images (newest first), of the images
\* whose URL is in neither the seen-store nor the image cache.
UnpostedPlaces ==
    LET imgs == fetch_images(images)
    IN  { i \in 1..Len(imgs) :
            imgs[i].url \notin seenFile /\ imgs[i].url \notin Range(cacheFile.urls) }

\* The image at place i comes from the host of the post before.
FromLastHost(i) ==
    /\ cacheFile.last_host # ""
    /\ _host_of(fetch_images(images)[i].source_link) = cacheFile.last_host

\* The least place of a non-empty set of places.
Newest(places) == CHOOSE i \in places : \A k \in places : i <= k

\* C25: the image picked is unposted; it is the newest unposted image
\* unless that one comes from the host of the preceding post and another
\* unposted image comes from a different host, and then it is the newest of
\* those; without any unposted image the result is "no-post" and nothing is
\* sent.
C25_PicksNewestUnposted ==
    /\ pc = "image_send" =>
          /\ UnpostedPlaces # {}
          /\ LET imgs == fetch_images(images)
                 first == Newest(UnpostedPlaces)
                 others == { k \in UnpostedPlaces : ~FromLastHost(k) }
             IN  /\ Len(picked) = 1
                 /\ IF FromLastHost(first) /\ others # {}
                    THEN picked[1] = imgs[Newest(others)]
                    ELSE picked[1] = imgs[first]
    /\ (task = "image" /\ pc = "returned" /\ result = "no-post") =>
          UnpostedPlaces = {} /\ sends = << >>

\* The newest unposted image comes from the host of the preceding post and
\* is passed over for an older image of another host.
C25_Witness ==
    /\ pc = "image_send"
    /\ FromLastHost(Newest(UnpostedPlaces))
    /\ picked[1] # fetch_images(images)[Newest(UnpostedPlaces)]

(***************************************************************************)
(* The daily image across invocations.                                     *)
(***************************************************************************)
\* C26: an image is sent only when its URL is not yet recorded, a
\* successful send records the URL in the seen-store and in the cache for
\* good, and a failed send returns "fail" and leaves the seen-store and the
\* cache, its last host included, as they were: no URL is published twice.
C26_ImagePublishedOnce ==
    /\ []("image" \notin resent)
    /\ [][seenFile \subseteq seenFile']_vars
    /\ [][(pc = "image_send" /\ pc' = "returned") =>
             IF result' = "ok"
             THEN /\ picked[1].url \notin seenFile
                  /\ picked[1].url \in seenFile'
                  /\ picked[1].url \in Range(cacheFile'.urls)
                  /\ cacheFile'.last_host = _host_of(picked[1].source_link)
             ELSE /\ result' = "fail"
                  /\ seenFile' = seenFile
                  /\ cacheFile' = cacheFile]_vars

\* A second invocation has failed after a first one had published an image.
C26_Witness ==
    /\ task = "image" /\ pc = "returned" /\ runs = 2
    /\ result = "fail"
    /\ cacheFile.last_host # ""
    /\ failedKeys \cap seenFile = {}

(***************************************************************************)
(* The scoring specification: the score fetch_rss_news gives an item,      *)
(* relevance_score plus the weight of the source, recomputed as a word is  *)
(* added to the title or the summary or as the source changes.             *)
(***************************************************************************)
\* s = relevance_score(title, summary); s += SOURCE_WEIGHTS.get(source_host, 2)
WeightedScore(title, summary, host) ==
    relevance_score(title, summary) + SOURCE_WEIGHTS(host)

\* A keyword, a negative hint and a word that is neither.
ScoreWords == {"Starship", "podcast", "base"}
ScoreHosts == {"nasa.gov", "www.reddit.com", "example.org"}

Rescored(title, summary, host, field, w) ==
    [title |-> title, summary |-> summary, host |-> host,
     was |-> <<[title |-> calc.title, summary |-> calc.summary, host |-> calc.host]>>,
     field |-> field, word |-> w]

ScoreTitleWord(w) ==
    /\ Len(calc.title) < MaxScoreWords
    /\ calc' = Rescored(Append(calc.title, w), calc.summary, calc.host, "title", w)
    /\ UNCHANGED exceptCalc

ScoreSummaryWord(w) ==
    /\ Len(calc.summary) < MaxScoreWords
    /\ calc' = Rescored(calc.title, Append(calc.summary, w), calc.host, "summary", w)
    /\ UNCHANGED exceptCalc

ScoreSource(h) ==
    /\ h # calc.host
    /\ calc' = Rescored(calc.title, calc.summary, h, "host", "")
    /\ UNCHANGED exceptCalc

InitScore == Init

NextScore ==
    \/ \E w \in ScoreWords : ScoreTitleWord(w)
    \/ \E w \in ScoreWords : ScoreSummaryWord(w)
    \/ \E h \in ScoreHosts : ScoreSource(h)

SpecScore == InitScore /\ [][NextScore]_vars

\* C27: a word that is a keyword never lowers the score of the item it is
\* added to, and raises it when the match is new; a word that is a negative
\* hint never raises it; a source of a greater or equal weight never lowers
\* it; and a new keyword in the title raises the score by more than the
\* same keyword in the summary would.
C27_ScoreMonotone ==
    calc.was # << >> =>
        LET old == calc.was[1]
            before == WeightedScore(old.title, old.summary, old.host)
            after == WeightedScore(calc.title, calc.summary, calc.host)
            k == Lower(calc.word)
            there == IF calc.field = "title" THEN old.title ELSE old.summary
        IN  /\ (calc.field # "host" /\ k \in KEYWORDS) =>
                  /\ after >= before
                  /\ ~Contains(there, k) => after > before
            /\ (calc.field # "host" /\ k \in NEGATIVE_HINTS) => after <= before
            /\ (calc.field = "host"
                  /\ SOURCE_WEIGHTS(calc.host) >= SOURCE_WEIGHTS(old.host)) =>
                  after >= before
            /\ (calc.field = "title" /\ k \in KEYWORDS
                  /\ ~Contains(old.title, k) /\ ~Contains(old.summary, k)) =>
                  after - before >
                      WeightedScore(old.title, Append(old.summary, calc.word),
                                    old.host) - before

\* A keyword has been added to the title of an item that matched a negative
\* hint and no keyword, from a source of the greatest weight.
C27_Witness ==
    /\ calc.was # << >>
    /\ calc.field = "title"
    /\ Lower(calc.word) \in KEYWORDS
    /\ ~Contains(calc.was[1].title \o calc.was[1].summary, Lower(calc.word))
    /\ \E n \in NEGATIVE_HINTS : Contains(calc.summary, n)
    /\ SOURCE_WEIGHTS(calc.host) = 50

(***************************************************************************)
(* The source host of a pooled item.                                       *)
(***************************************************************************)
\* C28: the source_host of every pooled item carries no leading www. (it is
\* what is left of it when a leading www. is removed), and the item's score
\* includes the weight of that host without www.
C28_SourceHostWithoutWww ==
    \A i \in 1..Len(pool) :
        LET a == pool[i]
            bare == _host_of([host |-> a.source_host, path |-> << >>])
        IN  /\ a.source_host = bare
            /\ a.score = score_article(a.title, a.summary) + SOURCE_WEIGHTS(bare)

(***************************************************************************)
(* The culture specification: run_culture_spotlight invoked again and      *)
(* again on three lists of fixed lengths, CULTURE_FORCE being unset, one   *)
(* of the kinds, or some other text.                                       *)
(***************************************************************************)
ForceInputs == {"", "game", "other"}

\* A variant that stays on the kind.
_next_cycle_Same(cur) == cur

\* tasks.py _next_cycle
_next_cycle(cur) ==
    CASE cur = "book" -> "game"
      [] cur = "game" -> "movie"
      [] OTHER -> "book"

\* run_culture_spotlight on the culture state c; the sends' results are not
\* looked at.
AfterRun(c, force, sent) ==
    LET state == c.state
        cycle == IF force \in Kinds THEN force ELSE state.cycle
        n == c.lens[cycle]
    IN  IF n = 0
        THEN [c EXCEPT
                !.log = Append(@, [force |-> force, kind |-> cycle,
                                   index |-> -1, result |-> "empty"])]
        ELSE [c EXCEPT
                !.log = Append(@, [force |-> force, kind |-> cycle,
                                   index |-> state.index[cycle] % n,
                                   result |-> "ok"]),
                !.sent = sent,
                !.state = IF force # "" THEN state
                          ELSE [cycle |-> _next_cycle(cycle),
                                index |-> [state.index EXCEPT
                                    ![cycle] = (state.index[cycle] + 1) % n]]]

CultureRun(force, sent) ==
    /\ Len(culture.log) < MaxCultureRuns
    /\ culture' = AfterRun(culture, force, sent)
    /\ UNCHANGED exceptCulture

InitCulture ==
    /\ TaskInit /\ PubAtRest /\ CalcAtRest /\ LaunchAtRest /\ overlap = NoOverlap
    /\ \E l \in [Kinds -> 0..MaxCultureList] : culture = [NoCulture EXCEPT !.lens = l]

NextCulture == \E force \in ForceInputs, sent \in BOOLEAN : CultureRun(force, sent)

SpecCulture == InitCulture /\ [][NextCulture]_vars

\* The invocations made with CULTURE_FORCE unset, in order.
Unforced == SelectSeq(culture.log, LAMBDA r : r.force = "")

\* C29: with three non-empty lists, the k-th unforced invocation posts the
\* kind that is k-th in the cycle book, game, movie, book, ..., and posts
\* the item whose index is the number of earlier unforced postings of that
\* kind, modulo the length of the kind's list; the index persisted for a
\* kind is the one its next posting takes.
C29_CultureCycles ==
    (\A kind \in Kinds : culture.lens[kind] > 0) =>
        /\ \A k \in 1..Len(Unforced) :
              LET r == Unforced[k]
                  earlier == Cardinality({j \in 1..(k - 1) : Unforced[j].kind = r.kind})
              IN  /\ r.result = "ok"
                  /\ r.kind = <<"book", "game", "movie">>[((k - 1) % 3) + 1]
                  /\ r.index = earlier % culture.lens[r.kind]
        /\ \A kind \in Kinds :
              culture.state.index[kind] =
                  Cardinality({j \in 1..Len(Unforced) : Unforced[j].kind = kind})
                      % culture.lens[kind]

\* Four unforced invocations among forced ones: the second book posting
\* takes the second book of a list of two.
C29_Witness ==
    /\ \A kind \in Kinds : culture.lens[kind] > 0
    /\ culture.lens["book"] = 2
    /\ Len(Unforced) = 4
    /\ Unforced[4].kind = "book" /\ Unforced[4].index = 1
    /\ Len(culture.log) > 4

(***************************************************************************)
(* The launch specification: run_launch_coverage invoked again and again,  *)
(* at instants that do not go back, on one launches file; the launch state *)
(* file persists in between.  Times are minutes.                           *)
(***************************************************************************)
\* The launches a file can list: two launches, a second entry with the id
\* of the first, and an entry without a window.
LaunchCatalog ==
    << [id |-> "a", timed |-> TRUE, t0 |-> 1500, image |-> "a.jpg"],
       [id |-> "b", timed |-> TRUE, t0 |-> 1502, image |-> NoImage],
       [id |-> "a", timed |-> TRUE, t0 |-> 1500, image |-> NoImage],
       [id |-> "c", timed |-> FALSE, t0 |-> 0, image |-> NoImage] >>

\* The instants of the invocations: two inside each window of launch a.
Instants == {60, 62, 1440, 1490}

InWindow(stage, mins) ==
    CASE stage = "t24" -> 60 * 24 - 5 <= mins /\ mins <= 60 * 24 + 5
      [] stage = "t1" -> 60 - 5 <= mins /\ mins <= 60 + 5
      [] OTHER -> 10 - 3 <= mins /\ mins <= 10 + 3

\* A variant that does not look at the flags.
Due_AnyFlag(mins, done) ==
    { stage \in Stages : InWindow(stage, mins) }

\* if not done.get(stage) and <window>: the stages to post for a launch that
\* is mins minutes away (the windows do not meet: at most one stage).
Due(mins, done) ==
    { stage \in Stages : stage \notin done /\ InWindow(stage, mins) }

Launches == launch.launches

\* launches = load_json(...); if not launches: return "no-post"; now = utcnow()
LaunchStart(t) ==
    /\ launch.pos = 0
    /\ launch.runs < MaxLaunchRuns
    /\ t >= launch.now
    /\ launch' = IF Launches = << >>
                 THEN [launch EXCEPT !.runs = @ + 1, !.now = t, !.result = "no-post"]
                 ELSE [launch EXCEPT !.runs = @ + 1, !.now = t, !.pos = 1,
                                     !.posted_any = FALSE, !.result = "none"]
    /\ UNCHANGED exceptLaunch

\* one launch of the loop for which nothing is posted
LaunchSkip ==
    /\ launch.pos \in 1..Len(Launches)
    /\ LET L == Launches[launch.pos]
       IN  ~L.timed \/ Due(L.t0 - launch.now, launch.state[L.id]) = {}
    /\ launch' = [launch EXCEPT !.pos = @ + 1]
    /\ UNCHANGED exceptLaunch

\* one launch of the loop for which _post is called
LaunchPost(imgOk, txtOk) ==
    /\ launch.pos \in 1..Len(Launches)
    /\ LET L == Launches[launch.pos]
           due == Due(L.t0 - launch.now, launch.state[L.id])
       IN  /\ L.timed
           /\ due # {}
           /\ LET stage == CHOOSE s \in due : TRUE
                  ok == ImageThenText(L.image, imgOk, txtOk)
              IN  launch' = [launch EXCEPT
                      !.pos = @ + 1,
                      !.state[L.id] = IF ok THEN @ \cup {stage} ELSE @,
                      !.posted_any = @ \/ ok,
                      !.posts[<<L.id, stage>>] = IF ok /\ @ < 2 THEN @ + 1 ELSE @,
                      !.failed = IF ok THEN @ ELSE @ \cup {<<L.id, stage>>},
                      !.late = IF stage \in launch.state[L.id]
                               THEN @ \cup {<<L.id, stage>>} ELSE @]
    /\ UNCHANGED exceptLaunch

\* return "ok" if posted_any else "no-post"
LaunchEnd ==
    /\ launch.pos = Len(Launches) + 1
    /\ launch' = [launch EXCEPT
                     !.pos = 0,
                     !.result = IF launch.posted_any THEN "ok" ELSE "no-post"]
    /\ UNCHANGED exceptLaunch

InitLaunch ==
    /\ TaskInit /\ PubAtRest /\ CalcAtRest /\ CultureAtRest /\ overlap = NoOverlap
    /\ \E l \in SubSeqs(LaunchCatalog, Len(LaunchCatalog)) :
          launch = [NoLaunch EXCEPT !.launches = l]

NextLaunch ==
    \/ \E t \in Instants : LaunchStart(t)
    \/ LaunchSkip
    \/ \E imgOk, txtOk \in BOOLEAN : LaunchPost(imgOk, txtOk)
    \/ LaunchEnd

SpecLaunch == InitLaunch /\ [][NextLaunch]_vars

\* C30: for every launch id and stage a reminder is published at most once;
\* the stage is flagged in the state file exactly when a reminder for it was
\* published, and no reminder is sent for a stage already flagged.
C30_ReminderOncePerStage ==
    /\ launch.late = {}
    /\ \A id \in LaunchIds, stage \in Stages :
          /\ launch.posts[<<id, stage>>] <= 1
          /\ launch.posts[<<id, stage>>] = 1 <=> stage \in launch.state[id]

\* A reminder that failed was published by a later invocation inside the
\* same window, and the invocation after that posted nothing.
C30_Witness ==
    /\ launch.pos = 0
    /\ launch.runs >= 2
    /\ Len(Launches) >= 3
    /\ <<"a", "t24">> \in launch.failed
    /\ launch.posts[<<"a", "t24">>] = 1
    /\ launch.result = "no-post"

(***************************************************************************)
(* The seen-store under serialized invocations.                            *)
(***************************************************************************)
\* C31: a task keeps every key that was in the seen-store when it started,
\* in the store it works on and in the file, and no step of any task takes
\* a key out of the file.
C31_SeenStoreAppendOnly ==
    /\ [](task # "none" => (seenBefore \subseteq seen /\ seenBefore \subseteq seenFile))
    /\ [][\A k \in seenFile : k \in seenFile']_vars

\* A second invocation has saved a store that holds the keys it started
\* with and a new one.
C31_Witness ==
    /\ pc = "returned" /\ runs = 2
    /\ seenBefore # {}
    /\ seenBefore \subseteq seenFile
    /\ seenFile # seenBefore

(***************************************************************************)
(* The overlap specification: two invocations of run_breaking_news or      *)
(* run_daily_image that share the seen-store file and run at the same      *)
(* time.  Each loads the whole file when it starts, marks keys on its own  *)
(* copy, and writes the whole copy back.                                   *)
(***************************************************************************)
OverlapKeys == {"k1", "k2", "k3"}

\* seen = load_json(SEEN_FILE, {}) or {}
OverlapLoad(i, kind) ==
    /\ overlap.inv[i].pc = "idle"
    /\ overlap' = [overlap EXCEPT
           !.inv[i] = [pc |-> "loaded", kind |-> kind, seen |-> overlap.file,
                       marked |-> {}]]
    /\ UNCHANGED exceptOverlap

\* a successful send of an item whose key is not in the copy:
\* seen[key] = True; at most 2 posts for breaking news, 1 for the image
OverlapMark(i, k) ==
    /\ overlap.inv[i].pc = "loaded"
    /\ k \notin overlap.inv[i].seen
    /\ Cardinality(overlap.inv[i].marked)
          < (IF overlap.inv[i].kind = "breaking" THEN BreakingPosts ELSE 1)
    /\ overlap' = [overlap EXCEPT
           !.inv[i].seen = Marked(@, {k}),
           !.inv[i].marked = @ \cup {k}]
    /\ UNCHANGED exceptOverlap

\* run_breaking_news: save_json(SEEN_FILE, seen) in every case;
\* run_daily_image: save_json(SEEN_FILE, seen) only after a successful send
OverlapEnd(i) ==
    /\ overlap.inv[i].pc = "loaded"
    /\ overlap' = [overlap EXCEPT
           !.inv[i].pc = "done",
           !.file = IF overlap.inv[i].kind = "breaking" \/ overlap.inv[i].marked # {}
                    THEN overlap.inv[i].seen ELSE @]
    /\ UNCHANGED exceptOverlap

InitOverlap == Init

NextOverlap ==
    \/ \E i \in 1..2, kind \in {"breaking", "image"} : OverlapLoad(i, kind)
    \/ \E i \in 1..2, k \in OverlapKeys : OverlapMark(i, k)
    \/ \E i \in 1..2 : OverlapEnd(i)

SpecOverlap == InitOverlap /\ [][NextOverlap]_vars

\* C32: when both invocations have finished, the seen-store file holds
\* every key that either of them marked as seen.
C32_NoMarkedKeyLost ==
    (overlap.inv[1].pc = "done" /\ overlap.inv[2].pc = "done")
        => (overlap.inv[1].marked \cup overlap.inv[2].marked) \subseteq overlap.file

(***************************************************************************)
(* The culture rotation without end: run_culture_spotlight is invoked      *)
(* again and again with CULTURE_FORCE unset; of the postings only the last *)
(* is kept, and tick tells one invocation from the next.                   *)
(***************************************************************************)
CultureTick(sent) ==
    /\ culture' = AfterRun([culture EXCEPT !.log = << >>, !.tick = 1 - @], "", sent)
    /\ UNCHANGED exceptCulture

SpecCultureLive ==
    /\ InitCulture
    /\ [][\E sent \in BOOLEAN : CultureTick(sent)]_vars
    /\ WF_vars(\E sent \in BOOLEAN : CultureTick(sent))

\* C33: in an endless sequence of unforced invocations every kind whose
\* list is not empty is posted again and again, whatever lists are empty.
C33_EveryKindPostedAgain ==
    \A kind \in Kinds :
        culture.lens[kind] > 0 =>
            []<>(/\ culture.log # << >>
                 /\ culture.log[1].kind = kind
                 /\ culture.log[1].result = "ok")

====
